---------------------------- MODULE Spec2Model ----------------------------
(***************************************************************************)
(* A model of lssdp.c: the interface enumeration, the M-SEARCH and NOTIFY  *)
(* senders, the packet parser, the receiving socket and the log callback.  *)
(*                                                                         *)
(* Text is a sequence of one-character strings, so that formatting,        *)
(* truncation and byte comparison are computed as the C code computes      *)
(* them.  C indices are 0-based; At(s, i) reads s[i].                      *)
(***************************************************************************)
EXTENDS Integers, Sequences, FiniteSets, TLC

VARIABLES
    cfg,        \* lssdp->port and lssdp->header: the caller's configuration
    ifconf,     \* the interface table the OS answers SIOCGIFCONF with
    iface,      \* lssdp->interface[0 .. LSSDP_INTERFACE_LIST_SIZE-1]
    pc,         \* where the caller is: idle, inside a sender's loop, returned
    op,         \* the API call in progress or just returned
    idx,        \* the sender loop's i
    msg,        \* lssdp_send_msearch's msearch[] buffer
    suffix,     \* lssdp_send_notify's suffix[] buffer
    calls,      \* the send_multicast_data calls of this API call, in order
    ret,        \* the API call's return value (read when pc = "done")
    refreshed,  \* what the call's lssdp_get_network_interface returned
    log,        \* the lssdp_log invocations of this call: <<level, line>>
    overflow,   \* a sprintf of this call wrote past the end of its buffer
    stale,      \* history: the list held, before this call, an entry the
                \* table scanned by this call no longer has
    data,       \* the datagram handed to lssdp_packet_parser
    packet,     \* the lssdp_packet the parser fills
    pret,       \* lssdp_packet_parser's return value
    spans,      \* the parser's parse_field_line calls: start, end, result
    fds,        \* the process's descriptor table: who holds each number
    sock,       \* lssdp->sock
    rcv,        \* what has been set up on the socket lssdp->sock names
    queue,      \* the datagrams waiting in that socket's receive buffer
    dcb,        \* lssdp->data_callback is set
    logcb,      \* lssdp_log_callback: "NULL" or a registered callback
    obs,        \* what the last call did: system calls, callbacks, the wire
    seen,       \* history: each failed recvfrom's cause so far, with what
                \* lssdp_read_socket returned for it
    twin        \* the same calls with the same OS answers in a process that
                \* never registers a log callback

\* The receiving socket, the descriptors and the callbacks
sockvars == <<fds, sock, rcv, queue, dcb, logcb, obs, seen, twin>>

vars == <<cfg, ifconf, iface, pc, op, idx, msg, suffix, calls, ret,
          refreshed, log, overflow, stale, data, packet, pret, spans,
          fds, sock, rcv, queue, dcb, logcb, obs, seen, twin>>

---------------------------------------------------------------------------
(* Bounds of the model *)

\* Slots of lssdp->interface.  lssdp.h sets LSSDP_INTERFACE_LIST_SIZE; the
\* model runs the same loops over a shorter array.
LSSDP_INTERFACE_LIST_SIZE == 3

\* The longest header string a configuration holds (lssdp.h sizes the fields).
FieldCap == 127

\* Field lines after the method line of a datagram given to the parser.
MaxLines == 2

---------------------------------------------------------------------------
(* Characters and the fixed texts *)

CR  == "\r"
LF  == "\n"
NUL == "NUL"

LSSDP_MULTICAST_ADDR ==
    <<"2", "3", "9", ".", "2", "5", "5", ".", "2", "5", "5", ".", "2", "5", "0">>

LSSDP_MSEARCH  == "M-SEARCH"
LSSDP_NOTIFY   == "NOTIFY"
LSSDP_RESPONSE == "RESPONSE"

LSSDP_MSEARCH_HEADER ==
    <<"M", "-", "S", "E", "A", "R", "C", "H", " ", "*", " ", "H", "T", "T", "P", "/",
       "1", ".", "1", CR, LF>>
LSSDP_NOTIFY_HEADER ==
    <<"N", "O", "T", "I", "F", "Y", " ", "*", " ", "H", "T", "T", "P", "/", "1", ".",
       "1", CR, LF>>
LSSDP_RESPONSE_HEADER ==
    <<"H", "T", "T", "P", "/", "1", ".", "1", " ", "2", "0", "0", " ", "O", "K", CR,
       LF>>

LSSDP_UDA_v1_1 ==
    <<"O", "P", "T", ":", "\"", "h", "t", "t", "p", ":", "/", "/", "s", "c", "h", "e",
       "m", "a", "s", ".", "u", "p", "n", "p", ".", "o", "r", "g", "/", "u", "p", "n",
       "p", "/", "1", "/", "0", "/", "\"", ";", " ", "n", "s", "=", "0", "1", CR, LF,
       "0", "1", "-", "N", "L", "S", ":", "1", CR, LF, "B", "O", "O", "T", "I", "D",
       ".", "U", "P", "N", "P", ".", "O", "R", "G", ":", "1", CR, LF, "C", "O", "N",
       "F", "I", "G", "I", "D", ".", "U", "P", "N", "P", ".", "O", "R", "G", ":", "1",
       "3", "3", "7", CR, LF>>

---------------------------------------------------------------------------
(* libc as the code uses it *)

Min(a, b) == IF a < b THEN a ELSE b

At(s, i) == s[i + 1]

Digits == <<"0", "1", "2", "3", "4", "5", "6", "7", "8", "9">>

RECURSIVE DecNat(_)
DecNat(n) ==
    IF n < 10 THEN <<Digits[n + 1]>>
    ELSE DecNat(n \div 10) \o <<Digits[(n % 10) + 1]>>

\* printf's %d
FormatD(n) == IF n < 0 THEN <<"-">> \o DecNat(-n) ELSE DecNat(n)

\* "%d.%d.%d.%d"; inet_ntop(AF_INET, ...) renders an address the same way
Dotted(ip) ==
    FormatD(ip[1]) \o <<".">> \o FormatD(ip[2]) \o <<".">> \o
    FormatD(ip[3]) \o <<".">> \o FormatD(ip[4])

\* snprintf(buf, size, ...): at most size-1 characters are stored
Snprintf(size, text) == SubSeq(text, 1, Min(Len(text), size - 1))

\* sprintf(buf, ...) into char buf[size]: the text and its NUL need Len+1 bytes
Overruns(size, text) == Len(text) + 1 > size

DigitVal(c) == CHOOSE d \in 0 .. 9 : Digits[d + 1] = c

\* atoi on an unsigned token: the value of the leading digits
RECURSIVE AtoiFrom(_, _)
AtoiFrom(s, acc) ==
    IF s = <<>> \/ Head(s) \notin {Digits[k] : k \in 1 .. 10} THEN acc
    ELSE AtoiFrom(Tail(s), acc * 10 + DigitVal(Head(s)))

Atoi(s) == AtoiFrom(s, 0)

\* strtok_r(..., ".", ...): the successive non-empty tokens of s
RECURSIVE Tokens(_, _, _)
Tokens(s, cur, acc) ==
    IF s = <<>> THEN (IF cur = <<>> THEN acc ELSE Append(acc, cur))
    ELSE IF Head(s) = "." THEN
        Tokens(Tail(s), <<>>, IF cur = <<>> THEN acc ELSE Append(acc, cur))
    ELSE Tokens(Tail(s), Append(cur, Head(s)), acc)

---------------------------------------------------------------------------
(* 02. lssdp_get_network_interface *)

\* One zeroed slot of lssdp->interface
ZeroInterface == [name |-> "", ip |-> <<0, 0, 0, 0>>]

\* A refresh that starts from the list as it is
ResetInterfaces_Keep(old) == old

\* memset(lssdp->interface, 0, ...): whatever the list held is gone
ResetInterfaces(old) == [k \in DOMAIN old |-> ZeroInterface]

\* A scan that puts the entries beyond the list size into the last slot
StoreEntry_OverwriteLast(st, e) ==
    [st EXCEPT !.list[Min(st.num + 1, LSSDP_INTERFACE_LIST_SIZE)] =
                   [name |-> e.name, ip |-> e.addr],
               !.num = st.num + 1]

\* The body of the scan loop for one IPv4 entry whose inet_ntop succeeded:
\* copy name and address into slot num, or warn when the list is full.
StoreEntry(st, e) ==
    LET ip   == Dotted(e.addr)
        toks == Tokens(ip, <<>>, <<>>)
    IN  IF st.num >= LSSDP_INTERFACE_LIST_SIZE
        THEN [st EXCEPT !.log = st.log \o << <<"WARN", 125>>, <<"DEBUG", 126>> >>,
                        !.num = st.num + 1]
        ELSE [st EXCEPT !.list[st.num + 1] =
                            [name |-> e.name,
                             ip   |-> [i \in 1 .. 4 |-> Atoi(toks[i])]],
                        !.num = st.num + 1]

\* The scan loop from table entry k on.  failAt is the entry whose inet_ntop
\* fails (0: none does).
RECURSIVE ScanFrom(_, _, _, _)
ScanFrom(table, k, failAt, st) ==
    IF k > Len(table) THEN [st EXCEPT !.result = 0]
    ELSE IF table[k].family # "AF_INET" THEN ScanFrom(table, k + 1, failAt, st)
    ELSE IF k = failAt THEN [st EXCEPT !.log = st.log \o << <<"ERROR", 119>> >>]
    ELSE ScanFrom(table, k + 1, failAt, StoreEntry(st, table[k]))

\* The faults the OS can answer one refresh with
RefreshFaults(table) ==
    {[kind |-> "none", at |-> 0], [kind |-> "socket", at |-> 0],
     [kind |-> "ioctl", at |-> 0]}
    \cup {[kind |-> "inet_ntop", at |-> k] :
            k \in {j \in 1 .. Len(table) : table[j].family = "AF_INET"}}

\* The whole function: the list, the return value and the log lines it leaves
GetNetworkInterface(old, table, fault) ==
    LET st0 == [list |-> ResetInterfaces(old), num |-> 0, result |-> -1,
                log |-> <<>>]
    IN  CASE fault.kind = "socket" -> [st0 EXCEPT !.log = << <<"ERROR", 91>> >>]
          [] fault.kind = "ioctl"  -> [st0 EXCEPT !.log = << <<"ERROR", 102>> >>]
          [] OTHER                 -> ScanFrom(table, 1, fault.at, st0)

\* The entries a sender loops over: up to the first slot with an empty name
RECURSIVE Listed(_, _)
Listed(list, k) ==
    IF k > Len(list) \/ list[k].name = "" THEN <<>>
    ELSE <<list[k]>> \o Listed(list, k + 1)

---------------------------------------------------------------------------
(* send_multicast_data *)

\* The step of send_multicast_data the OS fails ("none": every step succeeds)
SendFaults == {"none", "socket", "bind", "setsockopt", "sendto"}

\* The return value and the log line of one call.  rc = 0 exactly when sendto
\* put d on the wire from interface.ip towards LSSDP_MULTICAST_ADDR:ssdp_port.
SendMulticastData(d, interface, ssdp_port, fault) ==
    IF Len(d) = 0 THEN [rc |-> -1, line |-> 349]
    ELSE IF interface.name = "" THEN [rc |-> -1, line |-> 354]
    ELSE IF ssdp_port < 0 \/ ssdp_port > 65535 THEN [rc |-> -1, line |-> 359]
    ELSE CASE fault = "socket"     -> [rc |-> -1, line |-> 368]
           [] fault = "bind"       -> [rc |-> -1, line |-> 382]
           [] fault = "setsockopt" -> [rc |-> -1, line |-> 389]
           [] fault = "sendto"     -> [rc |-> -1, line |-> 405]
           [] OTHER                -> [rc |-> 0, line |-> 0]

\* What one call leaves behind: its arguments, its result, its log line
CallRecord(d, interface, ssdp_port, fault) ==
    LET r == SendMulticastData(d, interface, ssdp_port, fault)
    IN  [ifc |-> interface, data |-> d, port |-> ssdp_port, rc |-> r.rc,
         line |-> r.line]

LogOfSend(rec) == IF rec.rc = 0 THEN <<>> ELSE << <<"ERROR", rec.line>> >>

---------------------------------------------------------------------------
(* 05. lssdp_send_msearch, 06. lssdp_send_notify: the texts *)

CRLF == <<CR, LF>>

\* An M-SEARCH whose HOST line lacks the port
MsearchText_NoPort(c) ==
    LSSDP_MSEARCH_HEADER
    \o <<"H", "O", "S", "T", ":">> \o LSSDP_MULTICAST_ADDR \o <<CR, LF>>
    \o <<"M", "A", "N", ":", "\"", "s", "s", "d", "p", ":", "d", "i", "s", "c",
         "o", "v", "e", "r", "\"">> \o <<CR, LF>>
    \o <<"S", "T", ":">> \o c.st \o <<CR, LF>>
    \o <<"M", "X", ":", "1">> \o <<CR, LF, CR, LF>>

\* The snprintf of lssdp_send_msearch into msearch[1024]
MsearchText(c) ==
    Snprintf(1024,
        LSSDP_MSEARCH_HEADER
        \o <<"H", "O", "S", "T", ":">> \o LSSDP_MULTICAST_ADDR \o <<":">>
        \o FormatD(c.port) \o CRLF
        \o <<"M", "A", "N", ":", "\"", "s", "s", "d", "p", ":", "d", "i", "s", "c",
             "o", "v", "e", "r", "\"">> \o CRLF
        \o <<"S", "T", ":">> \o c.st \o CRLF
        \o <<"M", "X", ":", "1">> \o CRLF
        \o CRLF)

\* A suffix that takes port 0 for a port to print
SuffixPort_ZeroAllowed(c) ==
    IF 0 <= c.lport /\ c.lport <= 65535 THEN <<":">> \o FormatD(c.lport) ELSE <<>>

\* suffix[256] after the first sprintf: ":<port>" for a port in 1..0xFFFF
SuffixPort(c) ==
    IF 0 < c.lport /\ c.lport <= 65535 THEN <<":">> \o FormatD(c.lport) ELSE <<>>

\* suffix[256] after the second sprintf: "/<uri>" appended for a non-empty uri
SuffixText(c) ==
    IF Len(c.uri) > 0 THEN SuffixPort(c) \o <<"/">> \o c.uri ELSE SuffixPort(c)

\* location[256]: the host, or else the interface's address, and the suffix
LocationText(c, interface, sfx) ==
    IF Len(c.host) > 0 THEN c.host \o sfx ELSE Dotted(interface.ip) \o sfx

\* The snprintf of lssdp_send_notify into notify[1024]
NotifyText(c, location) ==
    Snprintf(1024,
        LSSDP_NOTIFY_HEADER
        \o <<"H", "O", "S", "T", ":">> \o LSSDP_MULTICAST_ADDR \o <<":">>
        \o FormatD(c.port) \o CRLF
        \o <<"C", "A", "C", "H", "E", "-", "C", "O", "N", "T", "R", "O", "L", ":",
             "m", "a", "x", "-", "a", "g", "e", "=", "1", "2", "0">> \o CRLF
        \o <<"S", "T", ":">> \o c.st \o CRLF
        \o <<"U", "S", "N", ":">> \o c.usn \o CRLF
        \o <<"L", "O", "C", "A", "T", "I", "O", "N", ":">> \o location \o CRLF
        \o <<"S", "M", "_", "I", "D", ":">> \o c.sm_id \o CRLF
        \o <<"D", "E", "V", "_", "T", "Y", "P", "E", ":">> \o c.device_type \o CRLF
        \o LSSDP_UDA_v1_1
        \o <<"N", "T", "S", ":", "s", "s", "d", "p", ":", "a", "l", "i", "v", "e">>
        \o CRLF
        \o CRLF)

---------------------------------------------------------------------------
(* lssdp_packet_parser, parse_field_line, get_colon_index *)

\* strlen: the bytes before the first zero byte
Strlen(d) ==
    LET z == {i \in 0 .. Len(d) - 1 : At(d, i) = NUL}
    IN  IF z = {} THEN Len(d) ELSE CHOOSE i \in z : \A j \in z : i <= j

\* strlen(header) < data_len && memcmp(data, header, strlen(header)) == 0
HeaderMatches(d, data_len, header) ==
    Len(header) < data_len /\ SubSeq(d, 1, Len(header)) = header

\* Step 1: the method copied into the packet and the index the scan starts
\* at; method "" when no header matches (i is then left at the last strlen)
MethodOf(d, data_len) ==
    IF HeaderMatches(d, data_len, LSSDP_MSEARCH_HEADER)
    THEN [method |-> LSSDP_MSEARCH, i |-> Len(LSSDP_MSEARCH_HEADER)]
    ELSE IF HeaderMatches(d, data_len, LSSDP_NOTIFY_HEADER)
    THEN [method |-> LSSDP_NOTIFY, i |-> Len(LSSDP_NOTIFY_HEADER)]
    ELSE IF HeaderMatches(d, data_len, LSSDP_RESPONSE_HEADER)
    THEN [method |-> LSSDP_RESPONSE, i |-> Len(LSSDP_RESPONSE_HEADER)]
    ELSE [method |-> "", i |-> Len(LSSDP_RESPONSE_HEADER)]

\* A search that runs on to the end of the string
GetColonIndex_PastEnd(string, start, end) ==
    LET hits == {i \in start .. Len(string) - 1 : At(string, i) = ":"}
    IN  IF hits = {} THEN -1 ELSE CHOOSE i \in hits : \A j \in hits : i <= j

\* The index of the first ':' in string[start .. end], or -1
GetColonIndex(string, start, end) ==
    LET hits == {i \in start .. end : At(string, i) = ":"}
    IN  IF hits = {} THEN -1 ELSE CHOOSE i \in hits : \A j \in hits : i <= j

\* lssdp_log_callback: NULL, or a function; what a registered function
\* returns is part of which function it is
LogCallbacks == {"NULL", "returns 0", "returns -1"}

\* lssdp_log's return value: -1 without a callback, else 0 once the callback
\* has returned, whatever it returned
LssdpLog(cb) == IF cb = "NULL" THEN -1 ELSE 0

\* The lssdp_log invocations that reach the callback.  (The message of line
\* 359 has a %d without an argument; with a callback registered its number
\* is whatever vsnprintf finds.  Message texts are not part of the model.)
Delivered(cb, lines) == IF LssdpLog(cb) = -1 THEN <<>> ELSE lines

\* The indices get_colon_index reads to give colon: up to the colon it
\* returns, up to end when it returns -1
ColonReads(start, end, colon) == start .. (IF colon = -1 THEN end ELSE colon)

\* parse_field_line on data[start .. end]: the return value, the log lines,
\* the packet afterwards and the indices of data its tests read.  The
\* accepted case stores nothing: the code stops at "TODO: get field,
\* field_len, value, value_len".
ParseFieldLine(d, start, end, pkt) ==
    IF At(d, start) = ":"
    THEN [rc |-> -1, log |-> << <<"WARN", 460>>, <<"DEBUG", 461>> >>,
          packet |-> pkt, reads |-> {start}]
    ELSE LET colon == GetColonIndex(d, start + 1, end)
             reads == {start} \cup ColonReads(start + 1, end, colon)
         IN  IF colon = -1
             THEN [rc |-> -1, log |-> << <<"WARN", 467>>, <<"DEBUG", 468>> >>,
                   packet |-> pkt, reads |-> reads]
             ELSE IF colon = end
             THEN [rc |-> -1, log |-> <<>>, packet |-> pkt, reads |-> reads]
             ELSE [rc |-> 0, log |-> <<>>, packet |-> pkt, reads |-> reads]

\* lssdp_debug("%s\n", data): with a callback registered vsnprintf reads
\* data from its first byte to its NUL; without one lssdp_log returns first
DebugReads(cb, d, lines) ==
    IF \E k \in 1 .. Len(Delivered(cb, lines)) : lines[k][1] = "DEBUG"
    THEN 0 .. Strlen(d)
    ELSE {}

\* The test of the scan loop at index i with the current line start
IsLineEnd(d, i, start) ==
    At(d, i) = LF /\ i - 1 > start /\ At(d, i - 1) = CR

\* Step 2, the scan loop from index from on: each index i in increasing
\* order that passes the test hands data[start .. i-2] to parse_field_line
\* and moves start to i+1.  st carries the packet, the log and the spans.
RECURSIVE ScanLines(_, _, _, _, _)
ScanLines(d, data_len, from, start, st) ==
    LET hits == {i \in from .. data_len - 1 : IsLineEnd(d, i, start)}
    IN  IF hits = {} THEN st
        ELSE LET i == CHOOSE h \in hits : \A j \in hits : h <= j
                 r == ParseFieldLine(d, start, i - 2, st.packet)
             IN  ScanLines(d, data_len, i + 1, i + 1,
                     [packet |-> r.packet,
                      log    |-> st.log \o r.log,
                      spans  |-> Append(st.spans,
                                    [start |-> start, end |-> i - 2, rc |-> r.rc,
                                     reads |-> r.reads, log |-> r.log])])

\* A zeroed lssdp_packet
ZeroPacket ==
    [method |-> "", st |-> <<>>, usn |-> <<>>, location |-> <<>>,
     sm_id |-> <<>>, device_type |-> <<>>]

\* The whole parser on a non-NULL buffer and packet
PacketParser(d, data_len, pkt) ==
    IF data_len # Strlen(d)
    THEN [rc |-> -1, packet |-> pkt, log |-> << <<"ERROR", 422>> >>, spans |-> <<>>]
    ELSE LET m == MethodOf(d, data_len)
         IN  IF m.method = ""
             THEN [rc |-> -1, packet |-> pkt,
                   log |-> << <<"WARN", 440>>, <<"DEBUG", 441>> >>, spans |-> <<>>]
             ELSE LET r == ScanLines(d, data_len, m.i, m.i,
                               [packet |-> [pkt EXCEPT !.method = m.method],
                                log |-> <<>>, spans |-> <<>>])
                  IN  [rc |-> 0, packet |-> r.packet, log |-> r.log,
                       spans |-> r.spans]

---------------------------------------------------------------------------
(* The inputs: OS tables, configurations, datagrams *)

Fill(c, n) == [i \in 1 .. n |-> c]

\* Entries of the OS interface table: two IPv4 interfaces and one entry of
\* another address family
OsEntries ==
    {[family |-> "AF_INET",  name |-> "lo",   addr |-> <<127, 0, 0, 1>>],
     [family |-> "AF_INET",  name |-> "eth0", addr |-> <<192, 168, 1, 10>>],
     [family |-> "AF_INET6", name |-> "eth0", addr |-> <<0, 0, 0, 0>>]}

\* The OS table holds up to one entry more than the list has slots
MaxTable == LSSDP_INTERFACE_LIST_SIZE + 1

Tables == UNION {[1 .. n -> OsEntries] : n \in 0 .. MaxTable}

\* "urn:example:service:1"
UrnExample ==
    <<"u", "r", "n", ":", "e", "x", "a", "m", "p", "l", "e", ":", "s", "e", "r", "v",
      "i", "c", "e", ":", "1">>

\* The one configuration of the interface and sequencing runs
PlainConfig ==
    [port |-> 1900, st |-> <<"s", "t">>, usn |-> <<"u">>, host |-> <<>>,
     lport |-> 8080, uri |-> <<"x">>, sm_id |-> <<"i">>, device_type |-> <<"d">>]

\* The configurations of the builder runs
BuildConfigs ==
    [port : {1900, 65535}, st : {<<>>, UrnExample}, usn : {<<"u">>},
     host : {<<>>, <<"h">>, Fill("h", FieldCap)},
     lport : {0, 1, 65535, 65536},
     uri : {<<>>, <<"x">>, Fill("x", FieldCap)},
     sm_id : {<<"i">>}, device_type : {<<"d">>}]

BuildTables ==
    LET lo   == CHOOSE e \in OsEntries : e.name = "lo"
        eth0 == CHOOSE e \in OsEntries : e.name = "eth0" /\ e.family = "AF_INET"
    IN  {<<eth0>>, <<lo, eth0>>}

\* First lines of a datagram: the three request lines, and each without its
\* CRLF, ended by a bare LF, or after a leading space; and none at all
Headers == {LSSDP_MSEARCH_HEADER, LSSDP_NOTIFY_HEADER, LSSDP_RESPONSE_HEADER}

FirstLines ==
    Headers
    \cup {SubSeq(h, 1, Len(h) - 2) : h \in Headers}
    \cup {SubSeq(h, 1, Len(h) - 2) \o <<LF>> : h \in Headers}
    \cup {<<" ">> \o h : h \in Headers}
    \cup {<<>>}

\* Field lines, without their CRLF
FieldLineTexts ==
    {<<>>, <<":">>, <<":", "x">>, <<"S", "T", ":", "f", "o", "o">>,
     <<"S", "T", ":">>, <<"S", "T">>, <<"a", ":", "b">>, <<"a", NUL, ":", "b">>}

RECURSIVE Bodies(_)
Bodies(n) ==
    IF n = 0 THEN {<<>>}
    ELSE Bodies(n - 1)
         \cup {b \o l \o CRLF : b \in Bodies(n - 1), l \in FieldLineTexts}

\* An unterminated remainder, or none
Remainders == {<<>>, <<"U", "S">>}

Datagrams ==
    {f \o b \o r : f \in FirstLines, b \in Bodies(MaxLines), r \in Remainders}

---------------------------------------------------------------------------
(* Descriptors, the log callback and what a call leaves behind *)

\* The highest descriptor number the process may hold
MaxFd == 4

\* The datagrams the receive buffer of the socket holds
MaxQueue == 1

FdRange == 0 .. MaxFd

\* The descriptor table of a process before the library's first call: 1 and
\* 2 in use, 0 in use or closed (a daemon that closed its standard input).
\* A number is "free" or names its holder.
StdFds(stdin) ==
    [d \in FdRange |-> IF d = 0 THEN stdin ELSE IF d <= 2 THEN "app" ELSE "free"]

\* socket() gives the lowest free number, -1 when there is none
LowestFree(f) ==
    LET free == {d \in FdRange : f[d] = "free"}
    IN  IF free = {} THEN -1 ELSE CHOOSE d \in free : \A e \in free : d <= e

SysSocket(f, fails) == IF fails THEN -1 ELSE LowestFree(f)

Opened(f, fd, holder) == IF fd \in FdRange THEN [f EXCEPT ![fd] = holder] ELSE f

\* close(fd); close(-1) changes nothing
Closed(f, fd) == IF fd \in FdRange THEN [f EXCEPT ![fd] = "free"] ELSE f

\* htons takes a uint16_t
Htons(p) == p % 65536

\* No socket, or one nothing has been set up on
NoReceiver == [nonblock |-> FALSE, reuse |-> FALSE, port |-> -1, member |-> FALSE]

NoRx == [kind |-> "none", bytes |-> <<>>]

NullData == [null |-> TRUE, text |-> <<>>]

NoArgs == [data |-> NullData, ifc |-> ZeroInterface, port |-> 0]

\* A call that did nothing in world w (descriptors, lssdp->sock, the socket's
\* set-up and queue, lssdp->interface).  Each function below gives, from the
\* world it starts in, the world it leaves and what it did: its return value
\* rc, its system calls on descriptors sys, its lssdp_log invocations log and
\* those delivered logged, its data_callback invocations cbdata, the
\* datagrams it put on the wire, what its recvfrom gave rx, its arguments,
\* and lssdp->sock as it found it, prev.
Quiet(w) ==
    [w |-> w, rc |-> 0, sys |-> <<>>, log |-> <<>>, logged |-> <<>>,
     cbdata |-> <<>>, wire |-> <<>>, rx |-> NoRx, args |-> NoArgs,
     prev |-> w.sock]

Finish(r, cb) == [r EXCEPT !.logged = Delivered(cb, r.log)]

---------------------------------------------------------------------------
(* 03. lssdp_create_socket *)

\* The set-up steps after socket(), in order
CreateSteps == <<"ioctl", "reuseaddr", "bind", "membership">>

\* The step the OS fails ("none": every step succeeds)
CreateFaults == {"none", "socket"} \cup {CreateSteps[k] : k \in DOMAIN CreateSteps}

CreateLine(fault) ==
    CASE fault = "ioctl"      -> 174
      [] fault = "reuseaddr"  -> 180
      [] fault = "bind"       -> 191
      [] fault = "membership" -> 201

\* What is set up on the new socket when the steps stop at fault
Setup(port, fault) ==
    LET at == {k \in DOMAIN CreateSteps : CreateSteps[k] = fault}
        k  == IF at = {} THEN Len(CreateSteps) + 1 ELSE CHOOSE j \in at : TRUE
    IN  [nonblock |-> k > 1, reuse |-> k > 2,
         port |-> IF k > 3 THEN Htons(port) ELSE -1, member |-> k > 4]

\* A set-up that goes on when bind failed
CreateResult_BindIgnored(fault) == IF fault \in {"none", "bind"} THEN 0 ELSE -1

\* result: 0 only past the last step
CreateResult(fault) == IF fault = "none" THEN 0 ELSE -1

CreateSocket(w, port, fault, cb) ==
    LET had  == w.sock >= 0
        f1   == IF had THEN Closed(w.fds, w.sock) ELSE w.fds
        sys1 == IF had THEN << <<"close", w.sock>> >> ELSE <<>>
        log1 == IF had THEN << <<"DEBUG", 157>> >> ELSE <<>>
        n    == SysSocket(f1, fault = "socket")
        w1   == [w EXCEPT !.fds = f1, !.sock = -1, !.rcv = NoReceiver,
                          !.queue = <<>>]
        q    == Quiet(w)
    IN  Finish(
        IF n < 0
        THEN [q EXCEPT !.w = w1, !.rc = -1,
                       !.sys = sys1 \o << <<"socket", -1>> >>,
                       !.log = log1 \o << <<"ERROR", 165>> >>]
        ELSE IF CreateResult(fault) = -1
        THEN [q EXCEPT !.w = w1, !.rc = -1,
                       !.sys = sys1 \o << <<"socket", n>>, <<"close", n>> >>,
                       !.log = log1 \o << <<"ERROR", CreateLine(fault)>> >>]
        ELSE [q EXCEPT !.w = [w1 EXCEPT !.fds = Opened(f1, n, "recv"),
                                        !.sock = n,
                                        !.rcv = Setup(port, fault)],
                       !.rc = 0,
                       !.sys = sys1 \o << <<"socket", n>> >>,
                       !.log = log1],
        cb)

---------------------------------------------------------------------------
(* 04. lssdp_read_socket *)

\* recvfrom fails for a cause of its own ("none": it does not)
ReadFaults == {"none", "recvfrom"}

\* A reader that hands on only what begins with the NOTIFY request line
CallbackArgs_NotifyOnly(bytes) ==
    IF HeaderMatches(bytes, Len(bytes), LSSDP_NOTIFY_HEADER)
    THEN << [data |-> bytes, len |-> Len(bytes)] >>
    ELSE <<>>

\* lssdp->data_callback(lssdp, buffer, recv_len)
CallbackArgs(bytes) == << [data |-> bytes, len |-> Len(bytes)] >>

\* A reader that returns what its warning returned
ReturnAfterWarn_LogResult(cb) == LssdpLog(cb)

\* lssdp_warn(...); return 0;
ReturnAfterWarn(cb) == 0

\* lssdp->sock is -1 or a socket lssdp_create_socket has set non-blocking, so
\* recvfrom returns at once: -1 on no socket (EBADF), on an empty queue
\* (EAGAIN) and on a failure of its own, else the length of the datagram it
\* copied, cut at sizeof(buffer).
ReadSocket(w, hasCallback, fault, cb) ==
    LET q == Quiet(w)
    IN  Finish(
        IF w.sock < 0 \/ fault = "recvfrom"
        THEN [q EXCEPT !.rc = -1, !.rx = [kind |-> "error", bytes |-> <<>>],
                       !.log = << <<"ERROR", 222>> >>]
        ELSE IF w.queue = <<>>
        THEN [q EXCEPT !.rc = -1,
                       !.rx = [kind |-> "wouldblock", bytes |-> <<>>],
                       !.log = << <<"ERROR", 222>> >>]
        ELSE LET d     == Head(w.queue)
                 bytes == SubSeq(d, 1, Min(Len(d), 2048))
                 q1    == [q EXCEPT !.w.queue = Tail(w.queue),
                                    !.rx = [kind |-> "data", bytes |-> bytes]]
             IN  IF ~hasCallback
                 THEN [q1 EXCEPT !.rc = ReturnAfterWarn(cb),
                                 !.log = << <<"WARN", 229>> >>]
                 ELSE [q1 EXCEPT !.rc = 0, !.cbdata = CallbackArgs(bytes)],
        cb)

---------------------------------------------------------------------------
(* send_multicast_data and lssdp_get_network_interface on descriptors *)

\* A sender that creates its socket before it looks at its arguments
SendOpens_Always(line) == TRUE

\* The four argument checks return before socket()
SendOpens(line) == line \notin {343, 349, 354, 359}

\* end: if (fd > 0) close(fd);
ClosesAtEnd(fd) == fd > 0

SendMulticastDataSys(w, arg, interface, port, fault, cb) ==
    LET q    == Quiet(w)
        n    == LowestFree(w.fds)
        eff  == IF n < 0 THEN "socket" ELSE fault
        r    == IF arg.null THEN [rc |-> -1, line |-> 343]
                ELSE SendMulticastData(arg.text, interface, port, eff)
        q1   == [q EXCEPT !.rc = r.rc,
                          !.log = IF r.rc = 0 THEN <<>>
                                  ELSE << <<"ERROR", r.line>> >>,
                          !.args = [data |-> arg, ifc |-> interface,
                                    port |-> port]]
    IN  Finish(
        IF ~SendOpens(r.line) THEN q1
        ELSE IF eff = "socket" THEN [q1 EXCEPT !.sys = << <<"socket", -1>> >>]
        ELSE [q1 EXCEPT !.w.fds = IF ClosesAtEnd(n) THEN w.fds
                                  ELSE Opened(w.fds, n, "send"),
                        !.sys = << <<"socket", n>> >> \o
                                (IF ClosesAtEnd(n) THEN << <<"close", n>> >>
                                 ELSE <<>>),
                        !.wire = IF r.rc = 0
                                 THEN << [src |-> interface.ip,
                                          port |-> Htons(port),
                                          data |-> arg.text] >>
                                 ELSE <<>>],
        cb)

GetNetworkInterfaceSys(w, table, fault, cb) ==
    LET q   == Quiet(w)
        n   == LowestFree(w.fds)
        eff == IF n < 0 THEN [kind |-> "socket", at |-> 0] ELSE fault
        r   == GetNetworkInterface(w.iface, table, eff)
        q1  == [q EXCEPT !.w.iface = r.list, !.rc = r.result, !.log = r.log]
    IN  Finish(
        IF eff.kind = "socket" THEN [q1 EXCEPT !.sys = << <<"socket", -1>> >>]
        ELSE [q1 EXCEPT !.w.fds = IF ClosesAtEnd(n) THEN w.fds
                                  ELSE Opened(w.fds, n, "helper"),
                        !.sys = << <<"socket", n>> >> \o
                                (IF ClosesAtEnd(n) THEN << <<"close", n>> >>
                                 ELSE <<>>)],
        cb)

---------------------------------------------------------------------------
(* The initial states *)

\* Descriptors, lssdp->sock, the socket, lssdp->interface: what a call of
\* the library finds and leaves
World ==
    [fds |-> fds, sock |-> sock, rcv |-> rcv, queue |-> queue, iface |-> iface]

NoObs ==
    [sys |-> <<>>, rx |-> NoRx, cbdata |-> <<>>, logged |-> <<>>,
     wire |-> <<>>, args |-> NoArgs, prev |-> -1]

TwinOf(w) == [w |-> w, rc |-> 0, sys |-> <<>>, cbdata |-> <<>>, wire |-> <<>>]

\* A context whose sock the application set to -1, in a process with its
\* standard descriptors.  Descriptor 0 in use, every socket a call of
\* lssdp_get_network_interface or send_multicast_data creates is above 0 and
\* closed again before the call returns.
NoSocket ==
    /\ fds = StdFds("app")
    /\ sock = -1
    /\ rcv = NoReceiver
    /\ queue = <<>>
    /\ dcb = FALSE
    /\ logcb = "NULL"
    /\ obs = NoObs
    /\ seen = {}
    /\ twin = TwinOf([fds |-> StdFds("app"), sock |-> -1, rcv |-> NoReceiver,
                      queue |-> <<>>,
                      iface |-> [k \in 1 .. LSSDP_INTERFACE_LIST_SIZE |->
                                   ZeroInterface]])

NoCall ==
    /\ pc = "idle"
    /\ op = "none"
    /\ idx = 0
    /\ msg = <<>>
    /\ suffix = <<>>
    /\ calls = <<>>
    /\ ret = 0
    /\ refreshed = 0
    /\ log = <<>>
    /\ overflow = FALSE
    /\ stale = FALSE

NoDatagram ==
    /\ data = <<>>
    /\ packet = ZeroPacket
    /\ pret = 0
    /\ spans = <<>>

\* A context after memset and configuration; any interface table
Init ==
    /\ NoSocket
    /\ cfg = PlainConfig
    /\ ifconf \in Tables
    /\ iface = [k \in 1 .. LSSDP_INTERFACE_LIST_SIZE |-> ZeroInterface]
    /\ NoCall
    /\ NoDatagram

InitBuild ==
    /\ NoSocket
    /\ cfg \in BuildConfigs
    /\ ifconf \in BuildTables
    /\ iface = [k \in 1 .. LSSDP_INTERFACE_LIST_SIZE |-> ZeroInterface]
    /\ NoCall
    /\ NoDatagram

InitParse ==
    /\ fds = StdFds("app")
    /\ sock = -1
    /\ rcv = NoReceiver
    /\ queue = <<>>
    /\ dcb = FALSE
    /\ logcb \in {"NULL", "returns 0"}
    /\ obs = NoObs
    /\ seen = {}
    /\ cfg = PlainConfig
    /\ ifconf = <<>>
    /\ iface = [k \in 1 .. LSSDP_INTERFACE_LIST_SIZE |-> ZeroInterface]
    /\ NoCall
    /\ data \in Datagrams
    /\ packet = ZeroPacket
    /\ pret = 0
    /\ spans = <<>>
    /\ twin = TwinOf(World)

\* The datagrams that reach the receiving socket: an empty one, one that is
\* no SSDP message, a NOTIFY
RxDatagrams ==
    {<<>>, <<"x">>, LSSDP_NOTIFY_HEADER \o <<"S", "T", ":", "f", "o", "o">> \o CRLF}

\* The calls of send_multicast_data: arguments it takes, with each fault of
\* the OS, and arguments it rejects, one or all of them wrong
SendData == {NullData, [null |-> FALSE, text |-> <<>>]}

SendPorts == {-1, 65536}

SendCalls ==
    LET x    == [null |-> FALSE, text |-> <<"x">>]
        eth0 == [name |-> "eth0", ip |-> <<192, 168, 1, 10>>]
    IN  {[data |-> x, ifc |-> eth0, port |-> p, fault |-> f] :
            p \in {0, 65535}, f \in SendFaults}
        \cup {[data |-> d, ifc |-> eth0, port |-> 0, fault |-> "none"] :
                 d \in SendData}
        \cup {[data |-> x, ifc |-> ZeroInterface, port |-> 0, fault |-> "none"]}
        \cup {[data |-> x, ifc |-> eth0, port |-> p, fault |-> "none"] :
                 p \in SendPorts}
        \cup {[data |-> d, ifc |-> ZeroInterface, port |-> p, fault |-> "none"] :
                 d \in SendData, p \in SendPorts}

\* The table of a host with lo and eth0
Ipv4Table == CHOOSE t \in BuildTables : Len(t) = 2

\* A process with descriptor 0 in use or closed, a context with or without
\* a data callback, sock set to -1
InitSock ==
    /\ cfg = PlainConfig
    /\ ifconf = Ipv4Table
    /\ iface = [k \in 1 .. LSSDP_INTERFACE_LIST_SIZE |-> ZeroInterface]
    /\ NoCall
    /\ NoDatagram
    /\ fds \in {StdFds("app"), StdFds("free")}
    /\ sock = -1
    /\ rcv = NoReceiver
    /\ queue = <<>>
    /\ dcb \in BOOLEAN
    /\ logcb = "NULL"
    /\ obs = NoObs
    /\ seen = {}
    /\ twin = TwinOf(World)

---------------------------------------------------------------------------
(* The API calls.  The library is synchronous: a call runs to its return   *)
(* before the caller does anything else, and the interface table changes   *)
(* only between calls as far as a call can tell (it reads the table once). *)

Range(f) == {f[k] : k \in DOMAIN f}

\* The IPv4 entries of an OS table, in table order, as interface values
Ipv4Of(table) ==
    LET v4 == SelectSeq(table, LAMBDA e : e.family = "AF_INET")
    IN  [k \in 1 .. Len(v4) |-> [name |-> v4[k].name, ip |-> v4[k].addr]]

\* The call of lssdp_get_network_interface every API call starts with
Refresh(fault) ==
    LET r == GetNetworkInterface(iface, ifconf, fault)
    IN  /\ iface' = r.list
        /\ refreshed' = r.result
        /\ log' = r.log
        /\ stale' = (Range(Listed(iface, 1)) \ Range(Ipv4Of(ifconf)) # {})

\* A sender that gives up at the first failed send
AfterSend_StopOnFailure(i, rc) ==
    IF rc = 0 THEN i + 1 ELSE LSSDP_INTERFACE_LIST_SIZE

\* The sender loops go on to the next slot whatever send_multicast_data
\* returned: its result is not looked at
AfterSend(i, rc) == i + 1

\* The sender loops' test: i in range and slot i named
LoopRuns(list, i) == i < LSSDP_INTERFACE_LIST_SIZE /\ list[i + 1].name # ""

\* lssdp_get_network_interface called by the application
CallGetNetworkInterface ==
    /\ UNCHANGED sockvars
    /\ pc = "idle"
    /\ \E fault \in RefreshFaults(ifconf) : Refresh(fault)
    /\ ret' = refreshed'
    /\ pc' = "done"
    /\ op' = "get_network_interface"
    /\ UNCHANGED <<cfg, ifconf, idx, msg, suffix, calls, overflow,
                   data, packet, pret, spans>>

\* lssdp_send_msearch up to its loop: refresh, then build msearch[]
CallSendMsearch ==
    /\ UNCHANGED sockvars
    /\ pc = "idle"
    /\ \E fault \in RefreshFaults(ifconf) : Refresh(fault)
    /\ msg' = MsearchText(cfg)
    /\ idx' = 0
    /\ pc' = "msearch"
    /\ op' = "send_msearch"
    /\ UNCHANGED <<cfg, ifconf, suffix, calls, ret, overflow,
                   data, packet, pret, spans>>

\* One iteration of lssdp_send_msearch's loop
MsearchIter ==
    /\ UNCHANGED sockvars
    /\ pc = "msearch"
    /\ LoopRuns(iface, idx)
    /\ \E fault \in SendFaults :
         LET rec == CallRecord(msg, iface[idx + 1], cfg.port, fault)
         IN  /\ calls' = Append(calls, rec)
             /\ log' = log \o LogOfSend(rec)
             /\ idx' = AfterSend(idx, rec.rc)
    /\ UNCHANGED <<cfg, ifconf, iface, pc, op, msg, suffix, ret, refreshed,
                   overflow, stale, data, packet, pret, spans>>

\* lssdp_send_msearch leaves its loop and returns 0
MsearchReturn ==
    /\ UNCHANGED sockvars
    /\ pc = "msearch"
    /\ ~LoopRuns(iface, idx)
    /\ ret' = 0
    /\ pc' = "done"
    /\ UNCHANGED <<cfg, ifconf, iface, op, idx, msg, suffix, calls, refreshed,
                   log, overflow, stale, data, packet, pret, spans>>

\* lssdp_send_notify up to its loop: refresh, then build suffix[]
CallSendNotify ==
    /\ UNCHANGED sockvars
    /\ pc = "idle"
    /\ \E fault \in RefreshFaults(ifconf) : Refresh(fault)
    /\ suffix' = SuffixText(cfg)
    /\ overflow' = (Overruns(256, SuffixPort(cfg)) \/ Overruns(256, SuffixText(cfg)))
    /\ idx' = 0
    /\ pc' = "notify"
    /\ op' = "send_notify"
    /\ UNCHANGED <<cfg, ifconf, msg, calls, ret, data, packet, pret, spans>>

\* The rest of an iteration once location[] is written: build notify[], send
NotifySend(location) ==
    \E fault \in SendFaults :
       LET rec == CallRecord(NotifyText(cfg, location), iface[idx + 1],
                             cfg.port, fault)
       IN  /\ calls' = Append(calls, rec)
           /\ log' = log \o LogOfSend(rec)
           /\ idx' = AfterSend(idx, rec.rc)

\* One iteration of lssdp_send_notify's loop, the location fitting its buffer
NotifyIter ==
    /\ UNCHANGED sockvars
    /\ pc = "notify"
    /\ LoopRuns(iface, idx)
    /\ ~Overruns(256, LocationText(cfg, iface[idx + 1], suffix))
    /\ NotifySend(LocationText(cfg, iface[idx + 1], suffix))
    /\ UNCHANGED <<cfg, ifconf, iface, pc, op, msg, suffix, ret, refreshed,
                   overflow, stale, data, packet, pret, spans>>

\* One iteration whose sprintf writes past the end of location[256].  The
\* behaviour is undefined; the model takes the two outcomes a build gives:
\* the process is killed at the overrun, or the bytes land in the frame and
\* the text is read back whole by the snprintf that follows.
NotifyIterOverrun ==
    /\ UNCHANGED sockvars
    /\ pc = "notify"
    /\ LoopRuns(iface, idx)
    /\ Overruns(256, LocationText(cfg, iface[idx + 1], suffix))
    /\ overflow' = TRUE
    /\ \/ /\ pc' = "crashed"
          /\ UNCHANGED <<calls, log, idx>>
       \/ /\ NotifySend(LocationText(cfg, iface[idx + 1], suffix))
          /\ UNCHANGED pc
    /\ UNCHANGED <<cfg, ifconf, iface, op, msg, suffix, ret, refreshed,
                   stale, data, packet, pret, spans>>

\* lssdp_send_notify leaves its loop and returns 0
NotifyReturn ==
    /\ UNCHANGED sockvars
    /\ pc = "notify"
    /\ ~LoopRuns(iface, idx)
    /\ ret' = 0
    /\ pc' = "done"
    /\ UNCHANGED <<cfg, ifconf, iface, op, idx, msg, suffix, calls, refreshed,
                   log, overflow, stale, data, packet, pret, spans>>

\* The caller has the return value and goes on; the locals of the call and
\* what was observed of it are gone, the context stays
Resume ==
    /\ UNCHANGED sockvars
    /\ pc = "done"
    /\ pc' = "idle"
    /\ op' = "none"
    /\ idx' = 0
    /\ msg' = <<>>
    /\ suffix' = <<>>
    /\ calls' = <<>>
    /\ ret' = 0
    /\ refreshed' = 0
    /\ log' = <<>>
    /\ overflow' = FALSE
    /\ stale' = FALSE
    /\ UNCHANGED <<cfg, ifconf, iface, data, packet, pret, spans>>

\* Between calls interfaces come and go
IfChange ==
    /\ UNCHANGED sockvars
    /\ pc = "idle"
    /\ ifconf' \in Tables \ {ifconf}
    /\ UNCHANGED <<cfg, iface, pc, op, idx, msg, suffix, calls, ret, refreshed,
                   log, overflow, stale, data, packet, pret, spans>>

\* lssdp_packet_parser on the datagram, into a zeroed packet
ParseDatagram ==
    /\ UNCHANGED sockvars
    /\ pc = "idle"
    /\ LET r == PacketParser(data, Len(data), packet)
       IN  /\ packet' = r.packet
           /\ pret' = r.rc
           /\ log' = r.log
           /\ spans' = r.spans
    /\ pc' = "parsed"
    /\ op' = "packet_parser"
    /\ UNCHANGED <<cfg, ifconf, iface, idx, msg, suffix, calls, ret, refreshed,
                   overflow, stale, data>>

\* lssdp_packet_parser on a NOTIFY that lssdp_send_notify put on the wire;
\* idx keeps which of the call's sends it was
ParseSent ==
    /\ UNCHANGED sockvars
    /\ pc = "done"
    /\ op = "send_notify"
    /\ \E k \in 1 .. Len(calls) :
         /\ calls[k].rc = 0
         /\ idx' = k
         /\ data' = calls[k].data
         /\ LET r == PacketParser(calls[k].data, Len(calls[k].data), ZeroPacket)
            IN  /\ packet' = r.packet
                /\ pret' = r.rc
                /\ spans' = r.spans
    /\ pc' = "parsed"
    /\ UNCHANGED <<cfg, ifconf, iface, op, msg, suffix, calls, ret, refreshed,
                   log, overflow, stale>>

---------------------------------------------------------------------------
(* Calls on the descriptors and the receiving socket, each run to its      *)
(* return, in this process (r) and in its twin (t)                         *)

Returned(name, r, t) ==
    /\ fds' = r.w.fds
    /\ sock' = r.w.sock
    /\ rcv' = r.w.rcv
    /\ queue' = r.w.queue
    /\ iface' = r.w.iface
    /\ op' = name
    /\ ret' = r.rc
    /\ log' = r.log
    /\ obs' = [sys |-> r.sys, rx |-> r.rx, cbdata |-> r.cbdata,
               logged |-> r.logged, wire |-> r.wire, args |-> r.args,
               prev |-> r.prev]
    /\ seen' = seen \cup (IF r.rx.kind \in {"wouldblock", "error"}
                          THEN {<<r.rx.kind, r.rc>>} ELSE {})
    /\ twin' = [w |-> t.w, rc |-> t.rc, sys |-> t.sys, cbdata |-> t.cbdata,
                wire |-> t.wire]
    /\ UNCHANGED <<cfg, ifconf, pc, idx, msg, suffix, calls, refreshed,
                   overflow, stale, data, packet, pret, spans, dcb, logcb>>

\* 01. lssdp_set_log_callback; the twin sets NULL
ApiSetLogCallback ==
    /\ \E c \in LogCallbacks \ {logcb} : logcb' = c
    /\ op' = "set_log_callback"
    /\ ret' = 0
    /\ log' = <<>>
    /\ obs' = [NoObs EXCEPT !.prev = sock]
    /\ twin' = TwinOf(twin.w)
    /\ UNCHANGED <<cfg, ifconf, iface, pc, idx, msg, suffix, calls, refreshed,
                   overflow, stale, data, packet, pret, spans, fds, sock, rcv,
                   queue, dcb, seen>>

\* 03. lssdp_create_socket
ApiCreateSocket ==
    \E fault \in CreateFaults :
       Returned("create_socket",
                CreateSocket(World, cfg.port, fault, logcb),
                CreateSocket(twin.w, cfg.port, fault, "NULL"))

\* 04. lssdp_read_socket
ApiReadSocket ==
    \E fault \in ReadFaults :
       Returned("read_socket",
                ReadSocket(World, dcb, fault, logcb),
                ReadSocket(twin.w, dcb, fault, "NULL"))

\* send_multicast_data, on any arguments
ApiSendMulticastData ==
    \E c \in SendCalls :
       Returned("send_multicast_data",
                SendMulticastDataSys(World, c.data, c.ifc, c.port, c.fault, logcb),
                SendMulticastDataSys(twin.w, c.data, c.ifc, c.port, c.fault, "NULL"))

\* 02. lssdp_get_network_interface
ApiGetNetworkInterface ==
    \E fault \in RefreshFaults(ifconf) :
       Returned("get_network_interface",
                GetNetworkInterfaceSys(World, ifconf, fault, logcb),
                GetNetworkInterfaceSys(twin.w, ifconf, fault, "NULL"))

\* A datagram for the group and port reaches the bound socket
Arrive ==
    /\ sock >= 0
    /\ Len(queue) < MaxQueue
    /\ \E d \in RxDatagrams :
         /\ queue' = Append(queue, d)
         /\ twin' = [twin EXCEPT !.w.queue = Append(@, d)]
    /\ UNCHANGED <<cfg, ifconf, iface, pc, op, idx, msg, suffix, calls, ret,
                   refreshed, log, overflow, stale, data, packet, pret, spans,
                   fds, sock, rcv, dcb, logcb, obs, seen>>

---------------------------------------------------------------------------
(* The specifications *)

\* A context in use: refreshes, searches and announcements in any order
Next ==
    \/ CallGetNetworkInterface
    \/ CallSendMsearch
    \/ MsearchIter
    \/ MsearchReturn
    \/ CallSendNotify
    \/ NotifyIter
    \/ NotifyReturn
    \/ Resume
    \/ IfChange

Spec == Init /\ [][Next]_vars

\* One search or announcement for each configuration, and the parser on
\* what the announcement sent
NextBuild ==
    \/ CallSendMsearch
    \/ MsearchIter
    \/ MsearchReturn
    \/ CallSendNotify
    \/ NotifyIter
    \/ NotifyIterOverrun
    \/ NotifyReturn
    \/ ParseSent

SpecBuild == InitBuild /\ [][NextBuild]_vars

\* The parser on each datagram
NextParse == ParseDatagram

SpecParse == InitParse /\ [][NextParse]_vars

\* The receiving socket, the descriptors and the log callback: calls in any
\* order, datagrams arriving in between
NextSock ==
    \/ ApiSetLogCallback
    \/ ApiCreateSocket
    \/ ApiReadSocket
    \/ ApiSendMulticastData
    \/ ApiGetNetworkInterface
    \/ Arrive

SpecSock == InitSock /\ [][NextSock]_vars

---------------------------------------------------------------------------
(* The claims *)

BeginsWith(d, h) == Len(d) >= Len(h) /\ SubSeq(d, 1, Len(h)) = h

InSender == op \in {"send_msearch", "send_notify"}

\* C1: for every datagram given to the parser, the method is set and the
\* parser reports success if and only if the datagram begins, byte for byte,
\* with one of the three request lines; a datagram that is exactly one
\* request line is included.
C1_MethodSetIffRequestLine ==
    (pc = "parsed" /\ op = "packet_parser") =>
        ((packet.method # "" /\ pret = 0)
            <=> (\E h \in Headers : BeginsWith(data, h)))

\* C2: parsing the NOTIFY text built for an interface gives back the
\* configured st, usn, sm_id, device_type and the LOCATION computed for that
\* interface.
C2_NotifyRoundTrip ==
    (pc = "parsed" /\ op = "send_notify") =>
        /\ pret = 0
        /\ packet.st = cfg.st
        /\ packet.usn = cfg.usn
        /\ packet.location = LocationText(cfg, calls[idx].ifc, suffix)
        /\ packet.sm_id = cfg.sm_id
        /\ packet.device_type = cfg.device_type

\* A recognised method line, a line that starts with ':', then "ST:foo"
ColonThenStFoo ==
    {h \o l \o CRLF \o <<"S", "T", ":", "f", "o", "o">> \o CRLF :
        h \in Headers, l \in {<<":">>, <<":", "x">>}}

\* The log lines that report a malformed field line
MalformedLines ==
    SelectSeq(log, LAMBDA e : e \in {<<"WARN", 460>>, <<"WARN", 467>>})

\* C3: a rejected field line does not affect its siblings: a line starting
\* with ':' followed by "ST:foo" yields success, st = "foo" and exactly one
\* MalformedLine diagnostic.
C3_SiblingLineStored ==
    (pc = "parsed" /\ op = "packet_parser" /\ data \in ColonThenStFoo) =>
        /\ pret = 0
        /\ Len(MalformedLines) = 1
        /\ packet.st = <<"f", "o", "o">>

\* C4: a sender makes exactly one send attempt for each listed interface, in
\* list order, and a failed send never keeps the later interfaces from
\* their attempt.
C4_OneAttemptPerInterface ==
    (InSender /\ pc \in {"msearch", "notify", "done"}) =>
        /\ Len(calls) = idx
        /\ idx <= Len(Listed(iface, 1))
        /\ \A k \in 1 .. Len(calls) : calls[k].ifc = Listed(iface, 1)[k]
        /\ (pc = "done" => Len(calls) = Len(Listed(iface, 1)))

\* C4's case: three interfaces, the bind of the second failed, the third was
\* attempted all the same
C4_Witness ==
    /\ pc = "done"
    /\ op = "send_notify"
    /\ Len(calls) = 3
    /\ calls[1].rc = 0
    /\ calls[2].rc = -1 /\ calls[2].line = 382
    /\ calls[3].rc = 0

\* C5: what a sender returns tells the caller each interface's outcome: a
\* returned success never covers a failed interface.
C5_ResultReportsEachInterface ==
    (InSender /\ pc = "done") =>
        (ret = 0 <=> \A k \in 1 .. Len(calls) : calls[k].rc = 0)


AfterRefresh ==
    /\ op \in {"get_network_interface", "send_msearch", "send_notify"}
    /\ pc \in {"msearch", "notify", "done"}

\* The first min(N, M) IPv4 entries of a table, in table order, in a list of
\* M slots
FirstIpv4(table) ==
    [k \in 1 .. LSSDP_INTERFACE_LIST_SIZE |->
        IF k <= Len(Ipv4Of(table)) THEN Ipv4Of(table)[k] ELSE ZeroInterface]

\* C6: a successful refresh leaves exactly the first min(N, M) IPv4 entries
\* of the OS table, in scan order; with N > M a truncation warning is logged
\* and the call succeeds all the same (a refresh fails only on an OS error).
C6_RefreshKeepsFirstEntries ==
    AfterRefresh =>
        /\ refreshed = 0 =>
             /\ iface = FirstIpv4(ifconf)
             /\ Len(Listed(iface, 1))
                    = Min(Len(Ipv4Of(ifconf)), LSSDP_INTERFACE_LIST_SIZE)
             /\ (Len(Ipv4Of(ifconf)) > LSSDP_INTERFACE_LIST_SIZE
                    => <<"WARN", 125>> \in Range(log))
        /\ refreshed # 0 =>
             Range(log) \cap {<<"ERROR", 91>>, <<"ERROR", 102>>, <<"ERROR", 119>>} # {}

\* C6's case: a successful refresh of a table with more IPv4 entries than
\* the list has slots
C6_Witness ==
    /\ pc = "done"
    /\ op = "get_network_interface"
    /\ ret = 0
    /\ Len(Ipv4Of(ifconf)) > LSSDP_INTERFACE_LIST_SIZE
    /\ <<"WARN", 125>> \in Range(log)

\* C7: a refresh that fails, at whatever point, returns an error and leaves
\* no entry in the list.
C7_FailedRefreshLeavesNoEntries ==
    (AfterRefresh /\ refreshed # 0) =>
        iface = [k \in 1 .. LSSDP_INTERFACE_LIST_SIZE |-> ZeroInterface]

\* C8: during and after a call the list holds only entries of the table that
\* call's refresh scanned, and every send of the call goes to such an entry.
C8_OnlyCurrentEntries ==
    AfterRefresh =>
        /\ \A k \in 1 .. LSSDP_INTERFACE_LIST_SIZE :
             iface[k] = ZeroInterface \/ iface[k] \in Range(Ipv4Of(ifconf))
        /\ \A k \in 1 .. Len(calls) : calls[k].ifc \in Range(Ipv4Of(ifconf))

\* C8's case: an announcement whose refresh failed part-way, on a list that
\* held an interface the table no longer has, and that sent all the same
C8_Witness ==
    /\ pc = "done"
    /\ op = "send_notify"
    /\ stale
    /\ refreshed # 0
    /\ calls # <<>>

EndsWith(d, t) == Len(d) >= Len(t) /\ SubSeq(d, Len(d) - Len(t) + 1, Len(d)) = t

\* The LOCATION of some listed interface does not fit location[256]
LocationTooLong ==
    \E e \in Range(Listed(iface, 1)) :
        Overruns(256, LocationText(cfg, e, SuffixText(cfg)))

\* C9: no buffer is written past its end, no truncated message is sent, and
\* an announcement whose LOCATION does not fit fails and sends nothing.
C9_BuildersBoundCheck ==
    /\ ~overflow
    /\ \A k \in 1 .. Len(calls) :
         calls[k].rc = 0 => EndsWith(calls[k].data, CRLF \o CRLF)
    /\ (op = "send_notify" /\ pc \in {"done", "parsed"} /\ LocationTooLong) =>
         /\ ret # 0
         /\ \A k \in 1 .. Len(calls) : calls[k].rc # 0

C10_PortText(p) ==
    CASE p = 1900  -> <<"1", "9", "0", "0">>
      [] p = 65535 -> <<"6", "5", "5", "3", "5">>

C10_Example ==
    <<"M", "-", "S", "E", "A", "R", "C", "H", " ", "*", " ", "H", "T", "T", "P", "/",
       "1", ".", "1", CR, LF, "H", "O", "S", "T", ":", "2", "3", "9", ".", "2", "5",
       "5", ".", "2", "5", "5", ".", "2", "5", "0", ":", "1", "9", "0", "0", CR, LF,
       "M", "A", "N", ":", "\"", "s", "s", "d", "p", ":", "d", "i", "s", "c", "o", "v",
       "e", "r", "\"", CR, LF, "S", "T", ":", "u", "r", "n", ":", "e", "x", "a", "m",
       "p", "l", "e", ":", "s", "e", "r", "v", "i", "c", "e", ":", "1", CR, LF, "M",
       "X", ":", "1", CR, LF, CR, LF>>
C10_RequestLine ==
    <<"M", "-", "S", "E", "A", "R", "C", "H", " ", "*", " ", "H", "T", "T", "P", "/",
       "1", ".", "1", CR, LF>>
C10_Host ==
    <<"H", "O", "S", "T", ":", "2", "3", "9", ".", "2", "5", "5", ".", "2", "5", "5",
       ".", "2", "5", "0", ":">>
C10_Man ==
    <<"M", "A", "N", ":", "\"", "s", "s", "d", "p", ":", "d", "i", "s", "c", "o", "v",
       "e", "r", "\"", CR, LF>>
C10_Mx ==
    <<"M", "X", ":", "1", CR, LF, CR, LF>>

\* The text of the protocol's M-SEARCH for a search target and a port
C10_Template(st, p) ==
    C10_RequestLine \o C10_Host \o C10_PortText(p) \o <<CR, LF>>
    \o C10_Man \o <<"S", "T", ":">> \o st \o <<CR, LF>> \o C10_Mx

\* C10: every payload a search hands to send_multicast_data is the M-SEARCH
\* text for the configured search target and port, the same for every
\* interface; for "urn:example:service:1" and 1900 it is the text written out.
C10_MsearchTextExact ==
    (op = "send_msearch" /\ pc \in {"msearch", "done"}) =>
        \A k \in 1 .. Len(calls) :
            /\ calls[k].data = C10_Template(cfg.st, cfg.port)
            /\ calls[k].port = cfg.port
            /\ (cfg.st = UrnExample /\ cfg.port = 1900
                    => calls[k].data = C10_Example)

\* C10's case: a search for "urn:example:service:1" on port 1900 that sent
\* on two interfaces
C10_Witness ==
    /\ pc = "done"
    /\ op = "send_msearch"
    /\ cfg.st = UrnExample
    /\ cfg.port = 1900
    /\ Len(calls) = 2
    /\ calls[1].rc = 0
    /\ calls[2].rc = 0


\* The dotted-decimal form of the addresses of the interfaces in OsEntries
C11_AddressText(ip) ==
    CASE ip = <<127, 0, 0, 1>> ->
            <<"1", "2", "7", ".", "0", ".", "0", ".", "1">>
      [] ip = <<192, 168, 1, 10>> ->
            <<"1", "9", "2", ".", "1", "6", "8", ".", "1", ".", "1", "0">>

\* ":<port>" for the location ports of BuildConfigs that are in 1..65535
C11_PortPart(p) ==
    CASE p = 1     -> <<":", "1">>
      [] p = 65535 -> <<":", "6", "5", "5", "3", "5">>
      [] OTHER     -> <<>>

\* The LOCATION value the protocol description gives for a configuration
\* and an interface
C11_Location(c, interface) ==
    (IF c.host # <<>> THEN c.host ELSE C11_AddressText(interface.ip))
    \o C11_PortPart(c.lport)
    \o (IF c.uri # <<>> THEN <<"/">> \o c.uri ELSE <<>>)

C11_Key == <<CR, LF, "L", "O", "C", "A", "T", "I", "O", "N", ":">>

\* The indices (1-based) at which the LOCATION line's value starts in d
C11_ValueStarts(d) ==
    {i + Len(C11_Key) : i \in
        {j \in 1 .. Len(d) - Len(C11_Key) :
            d[j] = CR /\ d[j + 2] = "L" /\ SubSeq(d, j, j + Len(C11_Key) - 1) = C11_Key}}

C12_CallbackOncePerDatagram ==
    (op = "read_socket" /\ dcb) =>
        IF obs.rx.kind = "data"
        THEN obs.cbdata = << [data |-> obs.rx.bytes, len |-> Len(obs.rx.bytes)] >>
        ELSE obs.cbdata = <<>>

C12_Witness ==
    /\ op = "read_socket"
    /\ dcb
    /\ obs.rx = [kind |-> "data", bytes |-> <<"x">>]
    /\ Len(obs.cbdata) = 1
    /\ ret = 0

\* C13: what lssdp_read_socket returns when no datagram is queued differs
\* from what it returns when the receive failed
C13_WouldBlockToldApart ==
    \A a \in seen, b \in seen :
        (a[1] = "wouldblock" /\ b[1] = "error") => a[2] # b[2]

\* C14: a call of send_multicast_data leaves no socket of its own open,
\* whatever number the OS gave it
C14_SendSocketClosed ==
    /\ \A d \in FdRange : fds[d] # "send"
    /\ op = "send_multicast_data" =>
          \A i \in 1 .. Len(obs.sys) :
              (obs.sys[i][1] = "socket" /\ obs.sys[i][2] >= 0) =>
                  \E j \in i + 1 .. Len(obs.sys) :
                      obs.sys[j] = <<"close", obs.sys[i][2]>>

\* C15: send_multicast_data with NULL or empty data, an interface without a
\* name or a port outside 0..65535 returns -1, and has created no socket
\* and sent nothing
C15_Rejected ==
    \/ obs.args.data.null
    \/ obs.args.data.text = <<>>
    \/ obs.args.ifc.name = ""
    \/ obs.args.port < 0
    \/ obs.args.port > 65535

C15_RejectedOpensNothing ==
    (op = "send_multicast_data" /\ C15_Rejected) =>
        /\ ret = -1
        /\ obs.sys = <<>>
        /\ obs.wire = <<>>

C15_Witness ==
    /\ op = "send_multicast_data"
    /\ ~obs.args.data.null
    /\ obs.args.data.text = <<"x">>
    /\ obs.args.ifc.name = ""
    /\ obs.args.port = 0
    /\ fds[0] = "free"
    /\ ret = -1

\* C16: with the same calls and the same answers of the OS, a process with
\* a log callback, whatever it returns, and one without have the same
\* return values, interface list, descriptors, socket, data callbacks and
\* datagrams sent; without a callback nothing is logged
C16_LogIsSideChannel ==
    /\ twin.w = World
    /\ twin.rc = ret
    /\ twin.sys = obs.sys
    /\ twin.cbdata = obs.cbdata
    /\ twin.wire = obs.wire
    /\ logcb = "NULL" => obs.logged = <<>>
    /\ logcb # "NULL" => obs.logged = log

C16_Witness ==
    /\ logcb = "returns -1"
    /\ op = "read_socket"
    /\ ~dcb
    /\ obs.rx.kind = "data"
    /\ obs.logged = << <<"WARN", 229>> >>
    /\ ret = 0
    /\ twin.rc = 0

\* C17: the context holds at most one receiving socket; lssdp->sock is -1
\* exactly when it holds none; lssdp_create_socket closes the one it finds
\* before it creates the next, returns 0 only with a socket that is
\* non-blocking, has SO_REUSEADDR, is bound to the configured port and has
\* joined the group, and on failure leaves none open
C17_Receivers == {d \in FdRange : fds[d] = "recv"}

C17_OneReceiver ==
    /\ Cardinality(C17_Receivers) <= 1
    /\ (sock = -1) <=> (C17_Receivers = {})
    /\ sock # -1 => C17_Receivers = {sock}
    /\ op = "create_socket" =>
          /\ ret = 0 =>
                /\ sock >= 0
                /\ rcv = [nonblock |-> TRUE, reuse |-> TRUE,
                           port |-> cfg.port, member |-> TRUE]
          /\ ret # 0 => (ret = -1 /\ sock = -1)
          /\ obs.prev >= 0 =>
                /\ obs.sys[1] = <<"close", obs.prev>>
                /\ \A i \in 1 .. Len(obs.sys) : obs.sys[i][1] = "socket" => i > 1

C17_Witness ==
    /\ op = "create_socket"
    /\ obs.prev >= 0
    /\ ret = 0
    /\ sock = obs.prev
    /\ seen # {}

\* The CRLF-delimited spans of d from index from on, each from right after
\* the CRLF before it to right before its own; what follows the last CRLF
\* is no span
RECURSIVE C18_Lines(_, _)
C18_Lines(d, from) ==
    LET ends == {j \in from .. Len(d) - 2 : At(d, j) = CR /\ At(d, j + 1) = LF}
    IN  IF ends = {} THEN <<>>
        ELSE LET j == CHOOSE e \in ends : \A f \in ends : e <= f
             IN  << [start |-> from, end |-> j - 1] >> \o C18_Lines(d, j + 2)

C18_Handed == [k \in 1 .. Len(spans) |-> [start |-> spans[k].start, end |-> spans[k].end]]

\* C18: on a datagram with a request line the spans handed to
\* parse_field_line are the CRLF-delimited spans after the request line, in
\* order (an empty one handed over or not), so that none contains a CR LF
\* pair; the parser returns 0 whatever follows the last CRLF
C18_SpansAreLines ==
    (op = "packet_parser" /\ pc = "parsed" /\ MethodOf(data, Len(data)).method # ""
        /\ Strlen(data) = Len(data)) =>
        LET lines == C18_Lines(data, MethodOf(data, Len(data)).i)
        IN  /\ pret = 0
            /\ \/ C18_Handed = lines
               \/ C18_Handed = SelectSeq(lines, LAMBDA l : l.start <= l.end)
            /\ \A k \in 1 .. Len(spans) :
                   \A j \in spans[k].start .. spans[k].end - 1 :
                       ~(At(data, j) = CR /\ At(data, j + 1) = LF)

C19_Span(k) == SubSeq(data, spans[k].start + 1, spans[k].end + 1)

\* The first ':' of the span at index 1 or later, 0 when there is none
C19_Colon(l) ==
    LET c == {i \in 2 .. Len(l) : l[i] = ":"}
    IN  IF c = {} THEN 0 ELSE (CHOOSE i \in c : \A j \in c : i <= j) - 1

C19_Accepts(l) ==
    /\ l # <<>>
    /\ l[1] # ":"
    /\ C19_Colon(l) >= 1
    /\ C19_Colon(l) # Len(l) - 1

\* C19 as claimed: a span is accepted exactly when it does not begin with
\* ':', has a ':' at index 1 or later and its first such ':' is not its
\* last byte; a rejected span gives -1; no byte outside the span is read
C19_AcceptsIffReadsInside ==
    (op = "packet_parser" /\ pc = "parsed") =>
        \A k \in 1 .. Len(spans) :
            /\ spans[k].rc = (IF C19_Accepts(C19_Span(k)) THEN 0 ELSE -1)
            /\ (spans[k].reads \cup DebugReads(logcb, data, spans[k].log))
                   \subseteq spans[k].start .. spans[k].end

\* C19 amended: the same, the bytes read being those the tests of
\* parse_field_line and get_colon_index read; the packet keeps its fields;
\* only the debug message of a span rejected for a leading or a missing
\* colon, with a log callback registered, reads the datagram from its
\* first byte
C19_AcceptsIffTestsInside ==
    (op = "packet_parser" /\ pc = "parsed") =>
        /\ packet = [ZeroPacket EXCEPT !.method = packet.method]
        /\ \A k \in 1 .. Len(spans) :
              /\ spans[k].rc = (IF C19_Accepts(C19_Span(k)) THEN 0 ELSE -1)
              /\ spans[k].reads \subseteq spans[k].start .. spans[k].end
              /\ DebugReads(logcb, data, spans[k].log) # {} =>
                    /\ logcb # "NULL"
                    /\ spans[k].rc = -1
                    /\ \/ C19_Span(k)[1] = ":"
                       \/ C19_Colon(C19_Span(k)) = 0

C19_Witness ==
    /\ op = "packet_parser"
    /\ pc = "parsed"
    /\ Len(spans) = 2
    /\ C19_Span(1) = <<"S", "T">>
    /\ spans[1].rc = -1
    /\ C19_Span(2) = <<"S", "T", ":", "f", "o", "o">>
    /\ spans[2].rc = 0
    /\ logcb # "NULL"
===========================================================================
